---- MODULE Spec2Model ----
(***************************************************************************)
(* A model of the retrieval pipeline of cwm_qna: ingestion                 *)
(* (document_processor.py), the point-writing operations of the three      *)
(* store clients (document_processor.py, qdrant_manager.py,                *)
(* qdrant_client.py), query-time search and text cleaning                  *)
(* (document_searcher.py) and the display of the results (app.py).         *)
(*                                                                         *)
(* The external collaborators are modelled by what the code relies on:     *)
(*   - the PDF reader and the text splitter give, for every page, the      *)
(*     number of chunks its text splits into (0 for a page whose text is   *)
(*     empty or whitespace);                                               *)
(*   - the embedding service answers or raises;                            *)
(*   - the vector store keeps one point per id (upsert), returns points    *)
(*     in ascending id order (scroll) and rejects vectors whose size is    *)
(*     not the collection's.                                               *)
(***************************************************************************)
EXTENDS Integers, Sequences, FiniteSets, TLC

----------------------------------------------------------------------------
(* Bounds of the model.                                                    *)

\* config.BATCH_SIZE: read at document_processor.py:149, set nowhere in src/
BatchSize == 2
\* pages of a document
MaxPages == 2
\* chunks the splitter makes of one page
MaxChunks == 3
\* failures the embedding service and the store may inject in one behaviour
MaxFaults == 2
\* calls of process_documents in one process
MaxRuns == 2
\* chunks written by the store clients in one behaviour of SpecStore
MaxWrites == 3
\* stored chunks the store ranks for a query
MaxPoints == 2
\* width of the id space: ids are in 0 .. 2^IdBits - 1 (63 in the code)
IdBits == 6

----------------------------------------------------------------------------
(* Program constants.                                                      *)

\* size=1536 in DocumentProcessor._setup_collection
VECTOR_SIZE == 1536
\* vector_size=384 of the sentence-transformers client
LEGACY_VECTOR_SIZE == 384
\* limit=10000 of the one scroll request of _get_processed_files
SCROLL_LIMIT == 10000

Files == {"a.pdf", "b.pdf"}
\* hash seeds of the processes (PYTHONHASHSEED)
Seeds == {0, 1}
\* a document whose points are in the store and that is no longer in
\* PDF_DIRECTORY
ArchivedFile == "archive.pdf"

VARIABLES
    collection,       \* the collection of COLLECTION_NAME: [exists, size, distance]
    store,            \* points of the collection: id -> payload
    bulk,             \* further points of ArchivedFile, lowest in id order
    hashSeed,         \* the process's string-hash seed
    docs,             \* PDF_DIRECTORY: filename -> chunks per page
    bad,              \* chunks the embedding service rejects
    faults,           \* failures the services may still inject
    pc,               \* where the processor is
    pagesTodo,        \* pages the two loops of process_documents still visit
    total_chunks,     \* process_documents: pending chunks
    total_processed,  \* process_documents: chunks counted as written
    order,            \* the order in which this run iterates new_files
    startStore,       \* the store when the current run started
    embedded,         \* chunks sent to the embedding service in this run
    written,          \* chunks upserted by this run, in order
    maxCall,          \* largest payload of a service call of this run
    failures,         \* service calls of this run that raised
    runs,             \* completed calls of process_documents
    returned,         \* value returned by the last completed call
    indexed,          \* the points the store ranks for the query, best first
    answered,         \* the embedding service answers the query's request
    searched,         \* DocumentSearcher.search has been called and returned
    raised,           \* the exception that left the call of search, or "none"
    query,            \* arguments of the last call of search
    limit,
    score_threshold,
    results,          \* what the last call of search returned
    response,         \* display_results is given an AI response
    displayed,        \* display_results has been called
    displayRaised,    \* the exception that left display_results, or "none"
    shown,            \* what display_results put on the page, in order
    raw,              \* a text given to clean_text
    cleanedText,      \* the text after the calls of clean_text made so far
    passes            \* calls of clean_text made on the text

ingestVars == <<collection, store, bulk, hashSeed, docs, bad, faults, pc,
                pagesTodo, total_chunks, total_processed, order, startStore,
                embedded, written, maxCall, failures, runs, returned>>

searchVars == <<indexed, answered, searched, raised, query, limit,
                score_threshold, results>>

displayVars == <<response, displayed, displayRaised, shown>>

cleanVars == <<raw, cleanedText, passes>>

vars == <<ingestVars, searchVars, displayVars, cleanVars>>

----------------------------------------------------------------------------
(* Helpers.                                                                *)

Pow2(n) == 2 ^ n

Abs(x) == IF x < 0 THEN -x ELSE x

Max(a, b) == IF a >= b THEN a ELSE b

Min(a, b) == IF a <= b THEN a ELSE b

Take(s, n) == SubSeq(s, 1, Min(n, Len(s)))

Drop(s, n) == SubSeq(s, Min(n, Len(s)) + 1, Len(s))

Range(s) == {s[i] : i \in 1..Len(s)}

RECURSIVE Flatten(_)
Flatten(ss) == IF ss = <<>> THEN <<>> ELSE Head(ss) \o Flatten(Tail(ss))

\* the permutations of a finite set, as sequences
Orders(S) ==
    {s \in [1..Cardinality(S) -> S] : \A i, j \in 1..Cardinality(S) :
                                          i # j => s[i] # s[j]}

----------------------------------------------------------------------------
(* Point identity.                                                         *)

FileNo(f) == CASE f = "a.pdf" -> 1 [] f = "b.pdf" -> 2 [] OTHER -> 3

\* f"{filename}_{page_number}_{chunk_number}": the string is read back
\* uniquely (the last two fields are decimal numbers), so it is modelled by
\* an injective code of the triple.
IdString(md) ==
    (FileNo(md.filename) * (MaxPages + 1) + md.page_number) * (MaxChunks + 1)
        + md.chunk_number

\* Python's hash() of a str: a signed value of IdBits + 1 bits (64 in the
\* code) that depends on the process's seed.
StrHash(seed, s) ==
    ((s * 37 + seed * 11) % Pow2(IdBits + 1)) - Pow2(IdBits)

\* abs(hash(id_string)) % (2**63)
generate_point_id(seed, md) == Abs(StrHash(seed, IdString(md))) % Pow2(IdBits)

Payload(md) ==
    [filename |-> md.filename, page_number |-> md.page_number,
     chunk_number |-> md.chunk_number]

\* QdrantClient.upsert: insert or overwrite by id, all points of the call
Upsert(st, ids, payloads) ==
    [i \in DOMAIN st \cup Range(ids) |->
        IF i \in Range(ids)
        THEN payloads[CHOOSE k \in 1..Len(ids) :
                 ids[k] = i /\ \A j \in 1..Len(ids) : ids[j] = i => j <= k]
        ELSE st[i]]

\* store_vectors: one point per chunk, id from its metadata, then upsert
store_vectors(st, seed, chunks) ==
    Upsert(st, [k \in 1..Len(chunks) |-> generate_point_id(seed, chunks[k])],
               [k \in 1..Len(chunks) |-> Payload(chunks[k])])

\* qdrant_manager.py, add_vectors: the id of every point comes from its
\* metadata, the payload is the text and the metadata
add_vectors(st, seed, metadata) ==
    Upsert(st, [k \in 1..Len(metadata) |-> generate_point_id(seed, metadata[k])],
               [k \in 1..Len(metadata) |-> Payload(metadata[k])])

\* qdrant_client.py, add_vectors: the id of a point is its position in the
\* call's list (enumerate, from 0), the payload is the metadata
legacy_add_vectors(st, metadata) ==
    Upsert(st, [k \in 1..Len(metadata) |-> k - 1],
               [k \in 1..Len(metadata) |-> Payload(metadata[k])])

\* number of stored points (count())
Count == bulk + Cardinality(DOMAIN store)

----------------------------------------------------------------------------
(* DocumentProcessor.                                                      *)

\* _setup_collection: create the collection when no collection has the
\* name; an existing one is used as it is, whatever its configuration.
setup_collection(c) ==
    IF ~c.exists
    THEN [exists |-> TRUE, size |-> VECTOR_SIZE, distance |-> "Cosine"]
    ELSE c

\* DocumentProcessor.__init__
Construct ==
    /\ pc = "new"
    /\ collection' = setup_collection(collection)
    /\ pc' = "idle"
    /\ UNCHANGED <<store, bulk, hashSeed, docs, bad, faults, pagesTodo,
                   total_chunks, total_processed, order, startStore,
                   embedded, written, maxCall, failures, runs, returned>>
    /\ UNCHANGED searchVars
    /\ UNCHANGED displayVars
    /\ UNCHANGED cleanVars

\* the ids of the stored points, ascending
RECURSIVE SortedIds(_)
SortedIds(S) ==
    IF S = {} THEN <<>>
    ELSE LET m == CHOOSE x \in S : \A y \in S : x <= y
         IN <<m>> \o SortedIds(S \ {m})

\* scroll(limit=10000, with_payload=['filename']): the first page only
ScrollPage ==
    LET room == Max(0, SCROLL_LIMIT - bulk)
        ids  == Take(SortedIds(DOMAIN store), room)
    IN (IF bulk > 0 THEN {ArchivedFile} ELSE {})
           \cup {store[ids[k]].filename : k \in 1..Len(ids)}

\* _get_processed_files: the filenames of the scrolled page, or the empty
\* set when the scroll raises
get_processed_files(scrollOk) == IF scrollOk THEN ScrollPage ELSE {}

\* process_pdf and create_chunks: the non-empty pages of a file, numbered
\* by position, each with its chunks numbered from 1
PageChunks(f, p, n) ==
    [k \in 1..n |-> [filename |-> f, page_number |-> p, chunk_number |-> k]]

\* process_pdf numbering the pages it yields 1, 2, ...: an empty page
\* shifts the numbers of the pages after it
process_pdf_renumbered(f) ==
    LET idx == SelectSeq([p \in 1..Len(docs[f]) |-> p],
                         LAMBDA p : docs[f][p] > 0)
    IN [j \in 1..Len(idx) |-> PageChunks(f, j, docs[f][idx[j]])]

process_pdf(f) ==
    LET idx == SelectSeq([p \in 1..Len(docs[f]) |-> p],
                         LAMBDA p : docs[f][p] > 0)
    IN [j \in 1..Len(idx) |-> PageChunks(f, idx[j], docs[f][idx[j]])]

\* process_documents, lines 121-132: the gate and the start of the loops
StartRun ==
    /\ pc = "idle"
    /\ runs < MaxRuns
    /\ \E scrollOk \in BOOLEAN :
         /\ scrollOk \/ faults > 0
         /\ faults' = IF scrollOk THEN faults ELSE faults - 1
         /\ LET new_files == Files \ get_processed_files(scrollOk)
            IN /\ startStore' = store
               /\ embedded' = {}
               /\ written' = <<>>
               /\ maxCall' = 0
               /\ failures' = 0
               /\ IF new_files = {}
                  THEN /\ runs' = runs + 1
                       /\ returned' = 0
                       /\ order' = <<>>
                       /\ total_chunks' = <<>>
                       /\ total_processed' = 0
                       /\ UNCHANGED <<pc, pagesTodo>>
                  ELSE /\ \E o \in Orders(new_files) :
                            /\ order' = o
                            /\ pagesTodo' =
                                 Flatten([i \in 1..Len(o) |-> process_pdf(o[i])])
                       /\ pc' = "loop"
                       /\ total_chunks' = <<>>
                       /\ total_processed' = 0
                       /\ UNCHANGED <<runs, returned>>
    /\ UNCHANGED <<collection, store, bulk, hashSeed, docs, bad>>
    /\ UNCHANGED searchVars
    /\ UNCHANGED displayVars
    /\ UNCHANGED cleanVars

\* get_embeddings raises for a batch with a chunk the service rejects
EmbedRejects(batch) == \E k \in 1..Len(batch) : batch[k] \in bad

\* the store rejects vectors whose size is not the collection's
UpsertRejects == collection.size # VECTOR_SIZE

\* one attempt at embedding and storing `batch`: "ok", "embed" (the
\* embedding call raised) or "store" (the upsert raised)
Outcomes(batch) ==
    IF EmbedRejects(batch) THEN {"embed"}
    ELSE (IF UpsertRejects THEN {"store"} ELSE {"ok"})
             \cup (IF faults > 0 THEN {"embed", "store"} ELSE {})

Transient(batch, out) ==
    \/ out = "embed" /\ ~EmbedRejects(batch)
    \/ out = "store" /\ ~UpsertRejects

\* the bookkeeping of one attempt
Attempt(batch, out) ==
    /\ embedded' = embedded \cup Range(batch)
    /\ maxCall' = Max(maxCall, Len(batch))
    /\ faults' = IF Transient(batch, out) THEN faults - 1 ELSE faults
    /\ failures' = IF out = "ok" THEN failures ELSE failures + 1
    /\ IF out = "ok"
       THEN /\ store' = store_vectors(store, hashSeed, batch)
            /\ written' = written \o batch
       ELSE UNCHANGED <<store, written>>

\* one iteration of the page loop, lines 140-159
ProcessPage ==
    /\ pc = "loop"
    /\ pagesTodo # <<>>
    /\ pagesTodo' = Tail(pagesTodo)
    /\ LET all == total_chunks \o Head(pagesTodo)
       IN IF Len(all) >= BatchSize
          THEN LET batch == Take(all, BatchSize)
               IN \E out \in Outcomes(batch) :
                    /\ Attempt(batch, out)
                    /\ IF out = "ok"
                       THEN /\ total_processed' = total_processed + Len(batch)
                            /\ total_chunks' = Drop(all, BatchSize)
                       ELSE /\ total_chunks' = all
                            /\ UNCHANGED total_processed
          ELSE /\ total_chunks' = all
               /\ UNCHANGED <<total_processed, store, embedded, written,
                              maxCall, failures, faults>>
    /\ UNCHANGED <<collection, bulk, hashSeed, docs, bad, pc, order,
                   startStore, runs, returned>>
    /\ UNCHANGED searchVars
    /\ UNCHANGED displayVars
    /\ UNCHANGED cleanVars

\* lines 161-170 with the count made before the calls, so that a failed
\* final batch is counted
FinishRun_counting_failed ==
    /\ pc = "loop"
    /\ pagesTodo = <<>>
    /\ IF total_chunks # <<>>
       THEN \E out \in Outcomes(total_chunks) :
              /\ Attempt(total_chunks, out)
              /\ returned' = total_processed + Len(total_chunks)
       ELSE /\ returned' = total_processed
            /\ UNCHANGED <<store, embedded, written, maxCall, failures,
                           faults>>
    /\ total_processed' = returned'
    /\ pc' = "idle"
    /\ runs' = runs + 1
    /\ UNCHANGED <<collection, bulk, hashSeed, docs, bad, pagesTodo,
                   total_chunks, order, startStore>>
    /\ UNCHANGED searchVars
    /\ UNCHANGED displayVars
    /\ UNCHANGED cleanVars

\* the remaining chunks and the return, lines 161-170
FinishRun ==
    /\ pc = "loop"
    /\ pagesTodo = <<>>
    /\ IF total_chunks # <<>>
       THEN \E out \in Outcomes(total_chunks) :
              /\ Attempt(total_chunks, out)
              /\ returned' = IF out = "ok"
                             THEN total_processed + Len(total_chunks)
                             ELSE total_processed
       ELSE /\ returned' = total_processed
            /\ UNCHANGED <<store, embedded, written, maxCall, failures,
                           faults>>
    /\ total_processed' = returned'
    /\ pc' = "idle"
    /\ runs' = runs + 1
    /\ UNCHANGED <<collection, bulk, hashSeed, docs, bad, pagesTodo,
                   total_chunks, order, startStore>>
    /\ UNCHANGED searchVars
    /\ UNCHANGED displayVars
    /\ UNCHANGED cleanVars

----------------------------------------------------------------------------
(* The ingestion specification.                                            *)

\* a.pdf has MaxPages pages, b.pdf one page; a file of fewer pages is
\* processed as one whose last pages are empty, since process_pdf yields
\* no empty page
PagesOf(f) == IF f = "a.pdf" THEN MaxPages ELSE 1

\* chunks of a page: none (an empty page), one, or as many as the bound
ChunkCounts == {0, 1, MaxChunks}

PageSeqs(f) == [1..PagesOf(f) -> ChunkCounts]

DocSets ==
    {[f \in Files |-> IF f = "a.pdf" THEN a ELSE b] :
        a \in PageSeqs("a.pdf"), b \in PageSeqs("b.pdf")}

\* no collection yet, one made by this code, or one made for the
\* sentence-transformers vectors (vectorizer.py, qdrant_client.py)
Collections ==
    {[exists |-> FALSE, size |-> 0, distance |-> "none"],
     [exists |-> TRUE, size |-> VECTOR_SIZE, distance |-> "Cosine"],
     [exists |-> TRUE, size |-> LEGACY_VECTOR_SIZE, distance |-> "Cosine"]}

FirstChunk(f) == [filename |-> f, page_number |-> 1, chunk_number |-> 1]

\* what an earlier process (with its own hash seed) left in the store
PriorStores ==
    {<<>>} \cup {store_vectors(<<>>, seed, <<FirstChunk("a.pdf")>>) : seed \in Seeds}

\* no search has been made
IdleSearch ==
    /\ indexed = <<>>
    /\ answered = TRUE
    /\ searched = FALSE
    /\ raised = "none"
    /\ query = <<>>
    /\ limit = 0
    /\ score_threshold = 0
    /\ results = <<>>

\* nothing has been displayed
IdleDisplay ==
    /\ response = FALSE
    /\ displayed = FALSE
    /\ displayRaised = "none"
    /\ shown = <<>>

\* clean_text has been given no text
IdleClean ==
    /\ raw = <<>>
    /\ cleanedText = <<>>
    /\ passes = 0

Init ==
    /\ IdleSearch
    /\ IdleDisplay
    /\ IdleClean
    /\ collection \in Collections
    /\ store \in PriorStores
    /\ bulk \in {0, SCROLL_LIMIT}
    /\ hashSeed = 0
    /\ docs \in DocSets
    /\ bad \in {{}, {FirstChunk("a.pdf")}}
    /\ faults = MaxFaults
    /\ pc = "new"
    /\ pagesTodo = <<>>
    /\ total_chunks = <<>>
    /\ total_processed = 0
    /\ order = <<>>
    /\ startStore = <<>>
    /\ embedded = {}
    /\ written = <<>>
    /\ maxCall = 0
    /\ failures = 0
    /\ runs = 0
    /\ returned = 0

Next == Construct \/ StartRun \/ ProcessPage \/ FinishRun

Spec == Init /\ [][Next]_vars

----------------------------------------------------------------------------
(* Properties of ingestion.                                                *)

\* a call of process_documents has returned and nothing runs
RunEnded == pc = "idle" /\ runs >= 1

\* the stored points whose payload filename is f
PointsOf(st, f) == {i \in DOMAIN st : st[i].filename = f}

\* the chunks of the files of this run, in the order the loops make them
Stream == Flatten(Flatten([i \in 1..Len(order) |-> process_pdf(order[i])]))

\* the fixed-size batch (1, 2, ...) the i-th chunk of the stream falls in
BatchOf(i) == ((i - 1) \div BatchSize) + 1

BatchChunks(b) ==
    {Stream[i] : i \in {j \in 1..Len(Stream) : BatchOf(j) = b}}

\* C1: a second call of process_documents in the same process, on the same
\* documents, leaves the number of stored points as the first call left it.
IdempotentIngestion ==
    (RunEnded /\ runs >= 2) =>
        Cardinality(DOMAIN store) = Cardinality(DOMAIN startStore)

\* C2: at the end of a run in which the only failures are those of batches
\* with a rejected chunk, every chunk of a fixed-size batch that has no
\* rejected chunk has been written.
SkipAndContinue ==
    (RunEnded /\ order # <<>> /\ faults = MaxFaults /\ ~UpsertRejects) =>
        \A i \in 1..Len(Stream) :
            BatchChunks(BatchOf(i)) \cap bad = {} =>
                Stream[i] \in Range(written)

\* C3: no embedding request and no upsert of a run carries more than
\* BatchSize chunks.
BatchSizeBound == maxCall <= BatchSize

\* C4: a run sends no chunk of a file that had a point in the store when
\* the run started; when every file had one, the run returns 0 and leaves
\* the store as it was.
DocumentGranularityDedup ==
    /\ \A c \in embedded : PointsOf(startStore, c.filename) = {}
    /\ (RunEnded /\ \A f \in Files : PointsOf(startStore, f) # {}) =>
           (returned = 0 /\ store = startStore)

\* C6: with a collection of another vector size or metric, construction
\* ends in ConfigMismatch and nothing is embedded or stored.
ConfigMismatchRaised ==
    (pc # "new" /\ (collection.size # VECTOR_SIZE
                        \/ collection.distance # "Cosine")) =>
        (pc = "ConfigMismatch" /\ embedded = {})

\* C13: the value a run returns is the number of chunks the run wrote with
\* a successful upsert, each chunk once: the written chunks are distinct
\* chunks of the run's files, each has its point in the store, and a chunk
\* that no successful call carried is not counted.
ReturnCountsWritten ==
    RunEnded =>
        /\ returned = Len(written)
        /\ \A i, j \in 1..Len(written) : i # j => written[i] # written[j]
        /\ \A i \in 1..Len(written) :
               /\ written[i].filename \in Range(order)
               /\ \E k \in DOMAIN store : store[k] = Payload(written[i])

\* a run with two failed calls that wrote a batch and left chunks
\* unwritten has returned
ReturnedAfterFailures ==
    /\ RunEnded
    /\ failures >= 2
    /\ returned >= BatchSize
    /\ returned < Len(Stream)
\* a run has ended in which no embedding call and no upsert raised
CleanRunEnded == RunEnded /\ failures = 0

\* the chunk k of page p of file f
Chunk(f, p, k) == [filename |-> f, page_number |-> p, chunk_number |-> k]

\* how often the run upserted chunk c
TimesWritten(c) == Cardinality({i \in 1..Len(written) : written[i] = c})

\* every chunk 1..k of every non-empty page of every file of the run, the
\* page numbered by its position in the file, was upserted exactly once,
\* and nothing else was
EveryChunkOnce ==
    /\ \A f \in Range(order) :
           \A p \in 1..Len(docs[f]), k \in 1..MaxChunks :
               TimesWritten(Chunk(f, p, k)) = IF k <= docs[f][p] THEN 1 ELSE 0
    /\ \A i \in 1..Len(written) :
           /\ written[i].filename \in Range(order)
           /\ written[i].page_number \in 1..Len(docs[written[i].filename])
           /\ written[i].chunk_number \in 1..MaxChunks

----------------------------------------------------------------------------
(* The point-writing operations of the three store clients, on one         *)
(* collection, over the lives of several processes.                        *)

StoreKeys ==
    {[filename |-> "a.pdf", page_number |-> 1, chunk_number |-> 1],
     [filename |-> "a.pdf", page_number |-> 1, chunk_number |-> 2],
     [filename |-> "b.pdf", page_number |-> 1, chunk_number |-> 1]}

\* the chunk lists of one call: one chunk, or two different ones
ChunkLists ==
    {<<k>> : k \in StoreKeys}
        \cup {c \in StoreKeys \X StoreKeys : c[1] # c[2]}

\* the collection as _setup_collection makes it
OwnCollection == [exists |-> TRUE, size |-> VECTOR_SIZE, distance |-> "Cosine"]

\* no run of process_documents has been made
IdleRun ==
    /\ bulk = 0
    /\ docs = [f \in Files |-> <<0>>]
    /\ bad = {}
    /\ faults = 0
    /\ pc = "idle"
    /\ pagesTodo = <<>>
    /\ total_chunks = <<>>
    /\ total_processed = 0
    /\ order = <<>>
    /\ startStore = <<>>
    /\ embedded = {}
    /\ maxCall = 0
    /\ failures = 0
    /\ runs = 0
    /\ returned = 0

IdleIngest ==
    /\ collection = OwnCollection
    /\ IdleRun

InitStore ==
    /\ IdleIngest
    /\ IdleSearch
    /\ IdleDisplay
    /\ IdleClean
    /\ store = <<>>
    /\ hashSeed \in Seeds
    /\ written = <<>>

StoreFrame ==
    /\ UNCHANGED <<collection, bulk, docs, bad, faults, pc, pagesTodo,
                   total_chunks, total_processed, order, startStore,
                   embedded, maxCall, failures, runs, returned>>
    /\ UNCHANGED searchVars
    /\ UNCHANGED displayVars
    /\ UNCHANGED cleanVars

\* DocumentProcessor.store_vectors on a batch
StoreVectors ==
    /\ \E chunks \in ChunkLists :
         /\ Len(written) + Len(chunks) <= MaxWrites
         /\ store' = store_vectors(store, hashSeed, chunks)
         /\ written' = written \o chunks
    /\ UNCHANGED hashSeed
    /\ StoreFrame

\* qdrant_manager.py, QdrantClientManager.add_vectors
AddVectors ==
    /\ \E metadata \in ChunkLists :
         /\ Len(written) + Len(metadata) <= MaxWrites
         /\ store' = add_vectors(store, hashSeed, metadata)
         /\ written' = written \o metadata
    /\ UNCHANGED hashSeed
    /\ StoreFrame

\* qdrant_client.py, QdrantClientManager.add_vectors
LegacyAddVectors ==
    /\ \E metadata \in ChunkLists :
         /\ Len(written) + Len(metadata) <= MaxWrites
         /\ store' = legacy_add_vectors(store, metadata)
         /\ written' = written \o metadata
    /\ UNCHANGED hashSeed
    /\ StoreFrame

\* the script ends and is started again: a new process, a new hash seed
Restart ==
    /\ hashSeed' \in Seeds \ {hashSeed}
    /\ UNCHANGED <<store, written>>
    /\ StoreFrame

NextStore == StoreVectors \/ AddVectors \/ LegacyAddVectors \/ Restart

SpecStore == InitStore /\ [][NextStore]_vars

\* C5: every chunk that was written has exactly one point in the store:
\* writing it again did not add a second point, and writing another chunk
\* did not overwrite it.
DeterministicPointIdentity ==
    \A k \in Range(written) :
        Cardinality({i \in DOMAIN store : store[i] = Payload(k)}) = 1

----------------------------------------------------------------------------
(* Text.  A str is the sequence of its characters, each a one-character    *)
(* string.                                                                 *)

NL == "\n"

\* U+2014, as one character
EmDash == "<em-dash>"

Whitespace == {" ", NL, "\t"}

Digit == {"0", "1", "2", "3", "4", "5", "6", "7", "8", "9"}

DigitChars == <<"0", "1", "2", "3", "4", "5", "6", "7", "8", "9">>

UpperCase ==
    <<"A", "B", "C", "D", "E", "F", "G", "H", "I", "J", "K", "L", "M", "N",
      "O", "P", "Q", "R", "S", "T", "U", "V", "W", "X", "Y", "Z">>

LowerCase ==
    <<"a", "b", "c", "d", "e", "f", "g", "h", "i", "j", "k", "l", "m", "n",
      "o", "p", "q", "r", "s", "t", "u", "v", "w", "x", "y", "z">>

LowerChar(c) ==
    IF \E i \in 1..Len(UpperCase) : UpperCase[i] = c
    THEN LowerCase[CHOOSE i \in 1..Len(UpperCase) : UpperCase[i] = c]
    ELSE c

\* str.lower()
lower(t) == [i \in 1..Len(t) |-> LowerChar(t[i])]

Rep(c, n) == [i \in 1..n |-> c]

\* pat in t
Contains(t, pat) ==
    \E i \in 0..(Len(t) - Len(pat)) : SubSeq(t, i + 1, i + Len(pat)) = pat

\* t.startswith(pat)
StartsWith(t, pat) == Len(pat) <= Len(t) /\ SubSeq(t, 1, Len(pat)) = pat

AllIn(t, S) == \A i \in 1..Len(t) : t[i] \in S

\* the length of the longest run of characters of S that ends at t[n]
RECURSIVE TailRun(_, _, _)
TailRun(t, n, S) ==
    IF n = 0 THEN 0
    ELSE IF t[n] \notin S THEN 0
    ELSE 1 + TailRun(t, n - 1, S)

\* the length of the longest run of characters of S that starts at t[n]
RECURSIVE LeadRun(_, _, _)
LeadRun(t, n, S) ==
    IF n > Len(t) THEN 0
    ELSE IF t[n] \notin S THEN 0
    ELSE 1 + LeadRun(t, n + 1, S)

\* t.strip(chars)
StripChars(t, S) ==
    SubSeq(t, LeadRun(t, 1, S) + 1, Len(t) - TailRun(t, Len(t), S))

\* t.strip()
strip(t) == StripChars(t, Whitespace)

\* str(n) of a natural number
RECURSIVE str(_)
str(n) ==
    IF n < 10 THEN <<DigitChars[n + 1]>>
    ELSE str(n \div 10) \o <<DigitChars[(n % 10) + 1]>>

\* sep.join(parts)
RECURSIVE join(_, _)
join(parts, sep) ==
    IF parts = <<>> THEN <<>>
    ELSE IF Len(parts) = 1 THEN parts[1]
    ELSE parts[1] \o sep \o join(Tail(parts), sep)

\* re.sub(r'\s*\d+\s*$', '', t): the one match is the leftmost suffix made
\* of whitespace, one or more digits and whitespace; it starts where the
\* whitespace before the last run of digits starts.
remove_trailing_number(t) ==
    LET e  == Len(t) - TailRun(t, Len(t), Whitespace)
        dg == TailRun(t, e, Digit)
        d  == e - dg
        w  == d - TailRun(t, d, Whitespace)
    IN IF dg = 0 THEN t ELSE SubSeq(t, 1, w)

\* re.sub(r'\n{3,}', '\n\n', t): of every run of three or more newlines
\* the first two stay, that is, a newline goes when the two characters
\* before it are newlines
collapse_newlines(t) ==
    LET keep == SelectSeq([i \in 1..Len(t) |-> i],
                    LAMBDA i : ~(/\ t[i] = NL
                                 /\ i >= 3
                                 /\ t[i - 1] = NL
                                 /\ t[i - 2] = NL))
    IN [j \in 1..Len(keep) |-> t[keep[j]]]

----------------------------------------------------------------------------
(* DocumentSearcher.                                                       *)

\* SEARCH_LIMIT of config.py
SEARCH_LIMIT == 5
\* SIMILARITY_THRESHOLD of config.py, 0.7; scores are in hundredths
SIMILARITY_THRESHOLD == 70
\* "Minimum 50 characters" of is_valid_content
MIN_LEN == 50
\* the default None of the arguments limit and score_threshold
None == 0 - 1

W_mother ==
    <<"m", "o", "t", "h", "e", "r">>

W_TheMother ==
    <<"T", "h", "e", " ", "M", "o", "t", "h", "e", "r">>

W_TakingAClass ==
    <<"T", "h", "e", " ", "M", "o", "t", "h", "e", "r", " ", "t", "a", "k",
      "i", "n", "g", " ", "a", " ", "c", "l", "a", "s", "s">>

W_Page ==
    <<"P", "a", "g", "e", " ">>

W_Chapter ==
    <<"C", "h", "a", "p", "t", "e", "r", " ">>

W_TableOfContents ==
    <<"T", "a", "b", "l", "e", " ", "o", "f", " ", "C", "o", "n", "t", "e",
      "n", "t", "s">>

W_QuestionsAndAnswers ==
    <<"Q", "u", "e", "s", "t", "i", "o", "n", "s", " ", "a", "n", "d", " ",
      "A", "n", "s", "w", "e", "r", "s">>

W_From ==
    <<"F", "r", "o", "m", " ">>

W_CommaPage ==
    <<",", " ", "P", "a", "g", "e", " ">>

\* clean_text
clean_text(text) == collapse_newlines(remove_trailing_number(strip(text)))

IsNumber(t) == t # <<>> /\ AllIn(t, Digit)

\* ^\d{1,2}/\d{1,2}/\d{4}$
MatchesDate(t) ==
    \E a \in 1..2, b \in 1..2 :
        /\ Len(t) = a + b + 6
        /\ IsNumber(SubSeq(t, 1, a))
        /\ t[a + 1] = "/"
        /\ IsNumber(SubSeq(t, a + 2, a + b + 1))
        /\ t[a + b + 2] = "/"
        /\ IsNumber(SubSeq(t, a + b + 3, a + b + 6))

\* re.match of one of metadata_patterns on the stripped text t
is_metadata(t) ==
    \/ StartsWith(t, W_TakingAClass)
    \/ StartsWith(t, W_Page) /\ IsNumber(SubSeq(t, Len(W_Page) + 1, Len(t)))
    \/ StartsWith(t, W_Chapter)
           /\ IsNumber(SubSeq(t, Len(W_Chapter) + 1, Len(t)))
    \/ MatchesDate(t)
    \/ t = W_TableOfContents
    \/ t = W_QuestionsAndAnswers
    \/ AllIn(t, Digit \cup Whitespace \cup {"-", EmDash})
    \/ /\ Len(t) >= 2
       /\ t[1] = "("
       /\ t[Len(t)] = ")"
       /\ \A i \in 2..(Len(t) - 1) : t[i] # NL

\* 'mother' in query.lower() or 'The Mother' in query
MentionsAlias(q) == Contains(lower(q), W_mother) \/ Contains(q, W_TheMother)

\* the veto without its condition on the query
mother_veto_any_query(text, q) ==
    Contains(lower(text), W_mother) /\ ~Contains(text, W_TheMother)

\* lines 41-43 of is_valid_content: the text is rejected
mother_veto(text, q) ==
    /\ MentionsAlias(q) /\ Contains(lower(text), W_mother)
    /\ ~Contains(text, W_TheMother)

\* lines 45-65 of is_valid_content: the length and the metadata patterns
\* (the isinstance(text, dict) branch is never taken: text is a str)
content_checks(text) ==
    /\ Len(strip(text)) >= MIN_LEN
    /\ ~is_metadata(strip(text))

\* is_valid_content
is_valid_content(text, q) == ~mother_veto(text, q) /\ content_checks(text)

\* `x or default` of a number or None
OrDefault(x, default) == IF x = None \/ x = 0 THEN default ELSE x

\* QdrantClient.search: of the points ranked best first, those with a
\* score of at least the threshold, at most `lim` of them
store_search(pts, lim, thr) ==
    Take(SelectSeq(pts, LAMBDA p : p.score >= thr), lim)

\* lines 86-114 of search: the dictionary made of one kept result
format_result(r) ==
    LET cleaned   == clean_text(r.text)
        citation  == W_From \o r.filename \o W_CommaPage
                         \o str(r.page_number) \o <<NL, NL>>
        hasHeader == r.page_header # <<>>
        header    == StripChars(strip(r.page_header), {"\""})
        text      == IF hasHeader /\ StartsWith(cleaned, header)
                     THEN strip(SubSeq(cleaned, Len(header) + 1, Len(cleaned)))
                     ELSE cleaned
        parts     == <<citation>> \o (IF hasHeader THEN <<header>> ELSE <<>>)
                         \o <<text>>
    IN [filename |-> r.filename, page_number |-> r.page_number,
        score |-> r.score,
        text |-> join(SelectSeq(parts, LAMBDA x : x # <<>>), <<NL, NL>>)]

\* DocumentSearcher.search
search(pts, q, lim, thr) ==
    LET hits     == store_search(pts, OrDefault(lim, SEARCH_LIMIT) * 2,
                                 OrDefault(thr, SIMILARITY_THRESHOLD))
        filtered == SelectSeq(hits, LAMBDA r : is_valid_content(r.text, q))
    IN Take([i \in 1..Len(filtered) |-> format_result(filtered[i])],
            OrDefault(lim, SEARCH_LIMIT))

\* QdrantClient.search raises when no collection has the name; on a
\* collection of another vector size it raises or answers (storeOk)
StoreRaises(coll, storeOk) ==
    \/ ~coll.exists
    \/ coll.size # VECTOR_SIZE /\ ~storeOk

\* a call of search that raises IndexError when the store has no hit
search_call_first_hit(pts, coll, q, lim, thr, embedOk, storeOk) ==
    IF ~embedOk THEN [raised |-> "embedding", results |-> <<>>]
    ELSE IF StoreRaises(coll, storeOk)
    THEN [raised |-> "store", results |-> <<>>]
    ELSE IF store_search(pts, OrDefault(lim, SEARCH_LIMIT) * 2,
                         OrDefault(thr, SIMILARITY_THRESHOLD)) = <<>>
    THEN [raised |-> "index", results |-> <<>>]
    ELSE [raised |-> "none", results |-> search(pts, q, lim, thr)]

\* how a call of DocumentSearcher.search ends: get_embedding (line 72) or
\* the store's search (line 74) raises and the exception leaves the call,
\* or the call returns its results
search_call(pts, coll, q, lim, thr, embedOk, storeOk) ==
    IF ~embedOk THEN [raised |-> "embedding", results |-> <<>>]
    ELSE IF StoreRaises(coll, storeOk)
    THEN [raised |-> "store", results |-> <<>>]
    ELSE [raised |-> "none", results |-> search(pts, q, lim, thr)]

----------------------------------------------------------------------------
(* The search specification: every ranking of up to MaxPoints stored       *)
(* chunks, every call of search.  search keeps no state between calls, so  *)
(* a behaviour is one call.                                                *)

F_a ==
    <<"a", ".", "p", "d", "f">>

X(n) == Rep("x", n)

\* stored chunk texts, with the page header of the point ("" when it has
\* none)
T_Canonical == [text |-> W_TheMother \o <<" ">> \o X(45), page_header |-> <<>>]

T_Generic ==
    [text |-> <<"m", "y", " ">> \o W_mother \o <<" ">> \o X(45),
     page_header |-> <<>>]

T_Neutral == [text |-> X(50), page_header |-> <<>>]

T_Numbered == [text |-> <<"a">> \o Rep("7", 49), page_header |-> <<>>]

T_Short == [text |-> <<"s", "h", "o", "r", "t">>, page_header |-> <<>>]

T_Capital ==
    [text |-> <<"M", "o", "t", "h", "e", "r", " ">> \o X(45),
     page_header |-> <<>>]

T_TwoNumbers ==
    [text |-> X(50) \o <<" ", "1", "2", " ", "3", "4">>, page_header |-> <<>>]

T_PageLine == [text |-> W_Page \o Rep("1", 45), page_header |-> <<>>]

T_Both ==
    [text |-> W_TheMother \o <<" ", "m", "y", " ">> \o W_mother \o <<" ">>
                  \o X(40),
     page_header |-> <<>>]

T_Headed ==
    [text |-> <<"T", "a", "l", "k", NL, NL, NL, NL>> \o X(50),
     page_header |-> <<"\"", "T", "a", "l", "k", "\"">>]

TextPool ==
    {T_Canonical, T_Generic, T_Neutral, T_Numbered, T_Short, T_Capital,
     T_TwoNumbers, T_PageLine, T_Both, T_Headed}

Q_alias ==
    <<"m", "y", " ", "m", "o", "t", "h", "e", "r">>

Q_upper ==
    <<"M", "O", "T", "H", "E", "R">>

Q_other ==
    <<"y", "o", "g", "a">>

Queries == {Q_alias, Q_upper, Q_other}

Limits == {None, 0, 1, 2}

Thresholds == {None, 0, 50, 90}

\* the score of the i-th best point: 90, 60, 30, ...
RankScore(i) == Max(0, 120 - 30 * i)

Rankings ==
    UNION {{[i \in 1..n |->
               [text |-> c[i].text, page_header |-> c[i].page_header,
                filename |-> F_a, page_number |-> i, score |-> RankScore(i)]]
            : c \in [1..n -> TextPool]} : n \in 0..MaxPoints}

\* a collection that is absent or of another vector size holds no point
\* of this code; whether the embedding service answers does not depend on
\* the store, and its failure is drawn for the stores of at most one point
InitSearch ==
    /\ IdleRun
    /\ IdleDisplay
    /\ IdleClean
    /\ collection \in Collections
    /\ store = <<>>
    /\ hashSeed = 0
    /\ written = <<>>
    /\ indexed \in Rankings
    /\ collection # OwnCollection => indexed = <<>>
    /\ answered \in (IF Len(indexed) <= 1 THEN BOOLEAN ELSE {TRUE})
    /\ searched = FALSE
    /\ raised = "none"
    /\ query = <<>>
    /\ limit = None
    /\ score_threshold = None
    /\ results = <<>>

\* a call of DocumentSearcher.search
Search ==
    /\ ~searched
    /\ raised = "none"
    /\ \E q \in Queries, l \in Limits, t \in Thresholds,
          storeOk \in (IF collection.exists /\ collection.size # VECTOR_SIZE
                       THEN BOOLEAN ELSE {TRUE}) :
         \E out \in {search_call(indexed, collection, q, l, t, answered,
                                 storeOk)} :
            /\ query' = q
            /\ limit' = l
            /\ score_threshold' = t
            /\ results' = out.results
            /\ raised' = out.raised
            /\ searched' = (out.raised = "none")
    /\ UNCHANGED <<indexed, answered>>
    /\ UNCHANGED ingestVars
    /\ UNCHANGED displayVars
    /\ UNCHANGED cleanVars

NextSearch == Search

SpecSearch == InitSearch /\ [][NextSearch]_vars

----------------------------------------------------------------------------
(* Properties of search.                                                   *)

\* what the store returned to the last call
Hits ==
    store_search(indexed, OrDefault(limit, SEARCH_LIMIT) * 2,
                 OrDefault(score_threshold, SIMILARITY_THRESHOLD))

\* the stored points (by page, which is the rank here) behind the results
ResultPages == {results[i].page_number : i \in 1..Len(results)}

\* the query has 'mother' in any case
AliasInQuery(q) == Contains(lower(q), W_mother)

\* the text has the lowercase common noun and not the canonical form
GenericOnly(text) == Contains(text, W_mother) /\ ~Contains(text, W_TheMother)

\* C7: search returns at most `limit` results, best score first.
SearchLengthAndOrder ==
    (searched /\ limit # None) =>
        /\ Len(results) <= limit
        /\ \A i, j \in 1..Len(results) :
               i < j => results[i].score >= results[j].score

\* C8: with the query, the limit and the store of the last call, a lower
\* threshold gives at least as many results as the call's threshold gave.
ThresholdMonotonicity ==
    (searched /\ score_threshold # None) =>
        \A t1 \in Thresholds \ {None} :
            t1 <= score_threshold =>
                Len(results) <= Len(search(indexed, query, limit, t1))

\* C9: every result's text has at least 50 characters.
FilterMinimumLength ==
    \A i \in 1..Len(results) : Len(results[i].text) >= MIN_LEN

\* C10: for a query with the alias no result comes from a chunk that has
\* only the generic noun; a chunk that passes the length and metadata checks
\* is dropped for no other reason: it is among the results (unless the limit
\* cut them) when the query has no alias or the chunk has 'The Mother'.
DisambiguationVeto ==
    searched =>
        /\ AliasInQuery(query) =>
               \A p \in ResultPages : ~GenericOnly(indexed[p].text)
        /\ \A i \in 1..Len(Hits) :
               (/\ content_checks(Hits[i].text)
                /\ Len(results) < OrDefault(limit, SEARCH_LIMIT)
                /\ (~AliasInQuery(query) \/ Contains(Hits[i].text, W_TheMother)))
                   => Hits[i].page_number \in ResultPages

\* a query with the alias, a generic-only chunk among the hits that passes
\* the other checks and is not in the results, and a result that was kept
VetoApplied ==
    /\ searched
    /\ AliasInQuery(query)
    /\ results # <<>>
    /\ \E i \in 1..Len(Hits) :
           /\ GenericOnly(Hits[i].text)
           /\ content_checks(Hits[i].text)
           /\ Hits[i].page_number \notin ResultPages

\* a call of search has ended, by returning or by raising
Called == searched \/ raised # "none"

----------------------------------------------------------------------------
(* app.py: display_results.                                                *)

\* results display_results is given in one call
MaxResults == 4

F_b ==
    <<"b", ".", "p", "d", "f">>

W_Pages ==
    <<"P", "a", "g", "e", "s", " ">>

W_CommaSpace ==
    <<",", " ">>

H_Talk ==
    <<"T", "a", "l", "k">>

\* result.payload and result.score are attribute reads: a result is read
\* when it has the attributes (a ScoredPoint of the store); the dictionary
\* DocumentSearcher.search makes of a result (lines 90-94, 114) has the
\* keys filename, page_number, score and text and no attribute payload
HasPayload(r) == "payload" \in DOMAIN r

\* f"Page{' ' if len(current_pages) == 1 else 's '}
\*    {', '.join(map(str, current_pages))}"
pages_str(current_pages) ==
    (IF Len(current_pages) = 1 THEN W_Page ELSE W_Pages)
        \o join([i \in 1..Len(current_pages) |-> str(current_pages[i])],
                W_CommaSpace)

\* lines 141-146: the keys of grouped_results, in insertion order
doc_keys(rest) ==
    LET first == SelectSeq([i \in 1..Len(rest) |-> i],
                     LAMBDA i : \A j \in 1..(i - 1) :
                         rest[j].payload.filename # rest[i].payload.filename)
    IN [k \in 1..Len(first) |-> rest[first[k]].payload.filename]

\* list.sort(key=page_number): ascending and stable
RECURSIVE sort_by_page(_)
sort_by_page(rs) ==
    IF rs = <<>> THEN <<>>
    ELSE LET r      == rs[Len(rs)]
             sorted == sort_by_page(SubSeq(rs, 1, Len(rs) - 1))
             k      == Cardinality({i \in 1..Len(sorted) :
                           sorted[i].payload.page_number
                               <= r.payload.page_number})
         IN SubSeq(sorted, 1, k) \o <<r>> \o SubSeq(sorted, k + 1, Len(sorted))

\* the length of the run of consecutive pages that starts doc_results
RECURSIVE RunLength(_, _)
RunLength(doc_results, n) ==
    IF n < Len(doc_results)
           /\ doc_results[n + 1].payload.page_number
                  = doc_results[n].payload.page_number + 1
    THEN RunLength(doc_results, n + 1)
    ELSE n

\* lines 164-174 and 185-194: the expander of one group
expander(doc_name, current_group) ==
    [kind     |-> "group",
     doc_name |-> doc_name,
     label    |-> pages_str([i \in 1..Len(current_group) |->
                                current_group[i].payload.page_number]),
     header   |-> current_group[1].payload.page_header,
     score    |-> current_group[1].score,
     texts    |-> [i \in 1..Len(current_group) |->
                      current_group[i].payload.text]]

\* lines 153-194: the groups of one document's sorted results
RECURSIVE page_groups(_, _)
page_groups(doc_name, doc_results) ==
    IF doc_results = <<>> THEN <<>>
    ELSE LET n == RunLength(doc_results, 1)
         IN <<expander(doc_name, SubSeq(doc_results, 1, n))>>
                \o page_groups(doc_name,
                               SubSeq(doc_results, n + 1, Len(doc_results)))

\* lines 140-194
grouped(rest) ==
    LET keys == doc_keys(rest)
    IN Flatten([k \in 1..Len(keys) |->
           page_groups(keys[k],
               sort_by_page(SelectSeq(rest,
                   LAMBDA r : r.payload.filename = keys[k])))])

Element(kind) ==
    [kind |-> kind, doc_name |-> <<>>, label |-> <<>>, header |-> <<>>,
     score |-> 0, texts |-> <<>>]

\* lines 127-133: the citation and the text of the primary result
primary(r) ==
    [kind     |-> "primary",
     doc_name |-> r.payload.filename,
     label    |-> W_Page \o str(r.payload.page_number),
     header   |-> r.payload.page_header,
     score    |-> 0,
     texts    |-> <<r.payload.text>>]

\* display_results(results, response): what it puts on the page and the
\* exception that leaves it
display_results(rs, resp) ==
    IF rs = <<>>
    THEN [raised |-> "none", shown |-> <<Element("info")>>]
    ELSE IF resp /\ ~HasPayload(rs[1])
    THEN [raised |-> "AttributeError", shown |-> <<Element("response")>>]
    ELSE LET top == IF resp THEN <<Element("response"), primary(rs[1])>>
                    ELSE <<>>
         IN IF Len(rs) <= 1
            THEN [raised |-> "none", shown |-> top]
            ELSE IF ~HasPayload(rs[2])
            THEN [raised |-> "AttributeError",
                  shown |-> top \o <<Element("additional")>>]
            ELSE [raised |-> "none",
                  shown |-> top \o <<Element("additional")>>
                                \o grouped(Tail(rs))]

----------------------------------------------------------------------------
(* The display specification: display_results on every list of up to       *)
(* MaxResults results and on the lists of the example of the spec          *)
(* (pages 2, 3, 4, 7, 8 of one file after the primary result), once as     *)
(* the dictionaries search returns and main passes on, once as the         *)
(* ScoredPoints whose attributes display_results reads.                    *)

DisplayFiles == {F_a, F_b}

\* page numbers with a neighbour (1, 2) and without (4)
PageNos == {1, 2, 4}

\* the score of the result of rank i: 0.95, 0.90, ... in hundredths
DisplayScore(i) == 100 - 5 * i

ResultText(i) == <<"t">> \o str(i)

\* a result as DocumentSearcher.search returns it
ResultDict(f, p, i) ==
    [filename |-> f, page_number |-> p, score |-> DisplayScore(i),
     text |-> ResultText(i)]

\* a result as the store returns it; page 1 of a.pdf has a page header
ScoredPoint(f, p, i) ==
    [score   |-> DisplayScore(i),
     payload |-> [filename |-> f, page_number |-> p, text |-> ResultText(i),
                  page_header |-> IF f = F_a /\ p = 1 THEN H_Talk ELSE <<>>]]

\* the non-primary pages of the example, in page order and in another rank
\* order
ExamplePages == {<<1, 2, 3, 4, 7, 8>>, <<1, 7, 3, 8, 2, 4>>, <<3, 2, 4, 7, 8>>}

\* the lists as sequences of <<filename, page_number>>
ResultKeys ==
    UNION {[1..n -> DisplayFiles \X PageNos] : n \in 0..MaxResults}
        \cup {[i \in 1..Len(ps) |-> <<F_a, ps[i]>>] : ps \in ExamplePages}
        \cup {[i \in 1..Len(ps) |->
                  <<IF i = 1 THEN F_b ELSE F_a, ps[i]>>] : ps \in ExamplePages}

ResultLists ==
    {[i \in 1..Len(ks) |-> ResultDict(ks[i][1], ks[i][2], i)] : ks \in ResultKeys}
        \cup {[i \in 1..Len(ks) |-> ScoredPoint(ks[i][1], ks[i][2], i)]
                  : ks \in ResultKeys}

InitDisplay ==
    /\ IdleIngest
    /\ store = <<>>
    /\ hashSeed = 0
    /\ written = <<>>
    /\ indexed = <<>>
    /\ answered = TRUE
    /\ searched = TRUE
    /\ raised = "none"
    /\ query = Q_other
    /\ limit = None
    /\ score_threshold = None
    /\ results \in ResultLists
    /\ IdleDisplay
    /\ IdleClean

\* a call of display_results(results, response)
DisplayResults ==
    /\ ~displayed
    /\ \E resp \in BOOLEAN :
         \E out \in {display_results(results, resp)} :
            /\ response' = resp
            /\ displayRaised' = out.raised
            /\ shown' = out.shown
    /\ displayed' = TRUE
    /\ UNCHANGED ingestVars
    /\ UNCHANGED searchVars
    /\ UNCHANGED cleanVars

NextDisplay == DisplayResults

SpecDisplay == InitDisplay /\ [][NextDisplay]_vars

----------------------------------------------------------------------------
(* Properties of the display.                                              *)

\* the groups on the page, in the order shown
Groups == SelectSeq(shown, LAMBDA e : e.kind = "group")

\* the results after the first, by rank
Remaining == 2..Len(results)

FileOf(i) ==
    IF HasPayload(results[i]) THEN results[i].payload.filename
    ELSE results[i].filename

PageOf(i) ==
    IF HasPayload(results[i]) THEN results[i].payload.page_number
    ELSE results[i].page_number

\* the ranks of the members of the g-th group, in the order shown
Members(g) ==
    [k \in 1..Len(Groups[g].texts) |->
        CHOOSE i \in 1..Len(results) : ResultText(i) = Groups[g].texts[k]]

MemberPages(g) == [k \in 1..Len(Members(g)) |-> PageOf(Members(g)[k])]

\* the g-th and the h-th group are neighbours among the groups of one file
NeighbourGroups(g, h) ==
    /\ g < h
    /\ Groups[g].doc_name = Groups[h].doc_name
    /\ \A m \in (g + 1)..(h - 1) : Groups[m].doc_name # Groups[g].doc_name

L_Pages234 ==
    <<"P", "a", "g", "e", "s", " ", "2", ",", " ", "3", ",", " ", "4">>

L_Pages78 ==
    <<"P", "a", "g", "e", "s", " ", "7", ",", " ", "8">>

\* the results after the first are pages 2, 3, 4, 7, 8 of one file
IsExample ==
    /\ Len(results) = 6
    /\ \A i, j \in Remaining : FileOf(i) = FileOf(j)
    /\ {PageOf(i) : i \in Remaining} = {2, 3, 4, 7, 8}

\* C12: display_results of two or more results ends without an exception;
\* the first result is in no group and every other result is in exactly
\* one; the members of a group are of the group's file, in ascending pages
\* that differ by exactly 1; neighbouring groups of one file are in page
\* order and do not differ by 1; a group of one member is labelled
\* 'Page N', a larger one 'Pages N, ...'; for the remaining pages
\* 2, 3, 4, 7, 8 of one file the groups are 'Pages 2, 3, 4', 'Pages 7, 8'.
GroupingCorrectness ==
    (displayed /\ Len(results) >= 2) =>
        /\ displayRaised = "none"
        /\ \A g \in 1..Len(Groups) : ResultText(1) \notin Range(Groups[g].texts)
        /\ \A i \in Remaining :
               Cardinality({gk \in (1..Len(Groups)) \X (1..Len(results)) :
                   /\ gk[2] <= Len(Groups[gk[1]].texts)
                   /\ Groups[gk[1]].texts[gk[2]] = ResultText(i)}) = 1
        /\ \A g \in 1..Len(Groups) :
               /\ \A k \in 1..Len(Members(g)) :
                      FileOf(Members(g)[k]) = Groups[g].doc_name
               /\ \A k \in 1..(Len(Members(g)) - 1) :
                      MemberPages(g)[k + 1] = MemberPages(g)[k] + 1
               /\ Groups[g].label =
                      (IF Len(Members(g)) = 1
                       THEN <<"P", "a", "g", "e", " ">>
                       ELSE <<"P", "a", "g", "e", "s", " ">>)
                        \o join([k \in 1..Len(Members(g)) |->
                                    str(MemberPages(g)[k])], <<",", " ">>)
        /\ \A g, h \in 1..Len(Groups) :
               NeighbourGroups(g, h) =>
                   LET last == MemberPages(g)[Len(Members(g))]
                   IN /\ last <= MemberPages(h)[1]
                      /\ last + 1 # MemberPages(h)[1]
        /\ IsExample =>
               [g \in 1..Len(Groups) |-> Groups[g].label]
                   = <<L_Pages234, L_Pages78>>

\* the rank at which file f first appears among the remaining results
FirstRank(f) ==
    CHOOSE i \in Remaining :
        FileOf(i) = f /\ \A j \in Remaining : FileOf(j) = f => i <= j

\* C14: every file of the remaining results has its groups on the page, the
\* groups of a file that appears earlier among the remaining results come
\* before those of a file that appears later, and a group shows the score
\* of its first member, the member with the lowest page of the group.
GroupOrderAndScore ==
    (displayed /\ Len(results) >= 2) =>
        /\ {FileOf(i) : i \in Remaining}
               = {Groups[g].doc_name : g \in 1..Len(Groups)}
        /\ \A g, h \in 1..Len(Groups) :
               (g < h /\ Groups[g].doc_name # Groups[h].doc_name) =>
                   FirstRank(Groups[g].doc_name) < FirstRank(Groups[h].doc_name)
        /\ \A g \in 1..Len(Groups) :
               /\ Groups[g].score = results[Members(g)[1]].score
               /\ \A k \in 1..Len(Members(g)) :
                      MemberPages(g)[1] <= MemberPages(g)[k]

----------------------------------------------------------------------------
(* The cleaning specification: clean_text on every text of up to           *)
(* MaxTextLen characters of a letter, a digit, a space and a newline,      *)
(* and again on its own result.                                            *)

MaxTextLen == 5

MaxPasses == 2

TextChars == {"a", "1", " ", NL}

Texts == UNION {[1..n -> TextChars] : n \in 0..MaxTextLen}

InitClean ==
    /\ IdleIngest
    /\ store = <<>>
    /\ hashSeed = 0
    /\ written = <<>>
    /\ IdleSearch
    /\ IdleDisplay
    /\ raw \in Texts
    /\ cleanedText = raw
    /\ passes = 0

\* text = self.clean_text(text)
CleanText ==
    /\ passes < MaxPasses
    /\ cleanedText' = clean_text(cleanedText)
    /\ passes' = passes + 1
    /\ UNCHANGED raw
    /\ UNCHANGED ingestVars
    /\ UNCHANGED searchVars
    /\ UNCHANGED displayVars

NextClean == CleanText

SpecClean == InitClean /\ [][NextClean]_vars

\* C16: a text that clean_text has returned is not changed by another call
\* of clean_text: it has no trailing number, no whitespace around it and no
\* run of three or more newlines.
CleanTextIdempotent ==
    /\ [][passes >= 1 => cleanedText' = cleanedText]_vars
    /\ [](passes >= 1 =>
            /\ cleanedText = strip(cleanedText)
            /\ cleanedText = <<>> \/ cleanedText[Len(cleanedText)] \notin Digit
            /\ ~Contains(cleanedText, <<NL, NL, NL>>))

====
